---- MODULE Spec2Model ----
(***************************************************************************)
(* Mandlakazi GeoProspector: the analysis run of App.handleAnalysis and    *)
(* the report extraction of geminiService.analyzeGeology.                  *)
(*                                                                         *)
(* The orchestration follows src/App.tsx lines 13-118 together with the    *)
(* service revision it calls, src/services/geminiService.ts lines 217-401. *)
(* The older revision of analyzeGeology kept in the same file (lines       *)
(* 13-107) is modelled beside it as analyzeGeology_r1.                     *)
(*                                                                         *)
(* The selected point and the plotted boundary follow App.tsx 16-29, 69-77 *)
(* and 138-167 with the controls of src/components/Sidebar.tsx; parseCSV   *)
(* is the one of Sidebar.tsx 72-88, and parseCSV_r1 the one of the other   *)
(* Sidebar revision, src/unnamed/part_004 397-437.                         *)
(***************************************************************************)
EXTENDS Integers, Sequences, FiniteSets, TLC

\* ---------------------------------------------------------------- bounds
\* Handler invocations by the user: runs started plus manual quick scans.
MaxStarts == 2
\* Longest "sources" list of a parsed report, longest grounding-chunk list.
MaxSources == 3
MaxChunks == 2
\* Longest list of plotted points; most data rows of a CSV file.
MaxPoints == 3
MaxRows == 2

\* ------------------------------------------------------- optional values
\* A nullable value of the program (T | null): null, or a held value.
Null == [isNull |-> TRUE]
Some(v) == [isNull |-> FALSE, val |-> v]

VARIABLES
    status,              \* App state: AnalysisStatus
    report,              \* App state: MiningReport | null
    chartData,           \* App state: any[]
    deepAnalysisResult,  \* App state: string | null
    quickScanResult,     \* App state: string
    nearbyPlaces,        \* App state: NearbyPlace[]
    timers,              \* pending setTimeout callbacks of handleAnalysis
    pc,                  \* position of the async callback of the last timer
    useDeepThinking,     \* argument of the run in flight (closure)
    agCall,              \* the run's analyzeGeology promise
    cdCall,              \* the run's generateChartData promise
    deepCall,            \* the run's performDeepThinkingAnalysis promise
    sideCalls,           \* quickGeologyScan / findNearbyMines promises in flight
    quickGw,             \* the gateway's verdict behind quickScanResult
    minesGw,             \* the gateway's verdict behind nearbyPlaces
    runs,                \* handleAnalysis invocations so far
    scans,               \* handleQuickScan invocations so far
    coordinates,         \* App state: Coordinates (the selected point)
    isPlottingMode,      \* App state: boolean
    plottedPoints,       \* App state: Coordinates[]
    usePlottedArea,      \* App state: boolean
    targetCoords,        \* the run in flight: let targetCoords (closure)
    polygon,             \* the run in flight: let polygon (closure)
    locationName,        \* the run in flight: argument locationName (closure)
    quickBy,             \* the call whose result quickScanResult shows
    minesBy,             \* the call whose result nearbyPlaces shows
    alerts,              \* window.alert dialogs shown so far
    uploadError,         \* Sidebar state: string | null
    xin,                 \* function check: the input
    xout,                \* function check: the function applied to xin
    xoutR1               \* function check: its other revision applied to xin

areaVars == <<coordinates, isPlottingMode, plottedPoints, usePlottedArea>>
closureVars == <<targetCoords, polygon, locationName>>
byVars == <<quickBy, minesBy>>
noticeVars == <<alerts, uploadError>>
appVars == <<status, report, chartData, deepAnalysisResult, quickScanResult,
             nearbyPlaces, timers, pc, useDeepThinking, agCall, cdCall,
             deepCall, sideCalls, quickGw, minesGw, runs, scans, coordinates,
             isPlottingMode, plottedPoints, usePlottedArea, targetCoords,
             polygon, locationName, quickBy, minesBy, alerts, uploadError>>
xVars == <<xin, xout, xoutR1>>
vars == <<status, report, chartData, deepAnalysisResult, quickScanResult,
          nearbyPlaces, timers, pc, useDeepThinking, agCall, cdCall,
          deepCall, sideCalls, quickGw, minesGw, runs, scans, coordinates,
          isPlottingMode, plottedPoints, usePlottedArea, targetCoords,
          polygon, locationName, quickBy, minesBy, alerts, uploadError,
          xin, xout, xoutR1>>

\* ------------------------------------------------------- AnalysisStatus
AnalysisStatus == {"IDLE", "UPLOADING", "FETCHING_SATELLITE",
                   "PROCESSING_GEOPHYSICS", "SCRAPING_DATA", "ANALYZING_AI",
                   "COMPLETE", "ERROR"}

\* Position of a status in the defined sequence; COMPLETE and ERROR are the
\* two alternative last stages.
StageRank(s) ==
    CASE s = "IDLE" -> 0
      [] s = "UPLOADING" -> 1
      [] s = "FETCHING_SATELLITE" -> 2
      [] s = "PROCESSING_GEOPHYSICS" -> 3
      [] s = "SCRAPING_DATA" -> 4
      [] s = "ANALYZING_AI" -> 5
      [] s = "COMPLETE" -> 6
      [] s = "ERROR" -> 6

Terminal == {"COMPLETE", "ERROR"}

\* ------------------------------------------------- Model Gateway responses
\* What ai.models.generateContent gives back: a rejected promise (Failed), or
\* a response whose text is a string.  The text is carried with what it
\* holds: whether it is wrapped in a ```json fence, and the JSON value it
\* spells (NotJson when it spells none).
Failed == [ok |-> FALSE]
NotJson == [type |-> "notjson"]
\* The JSON values null and a number: JSON.parse returns them without error.
JsonNull == [type |-> "null"]
JsonNumber == [type |-> "number"]
Doc(text, fenced, content) == [text |-> text, fenced |-> fenced, content |-> content]
Response(doc, chunks) == [ok |-> TRUE, doc |-> doc, chunks |-> chunks]

\* A JSON object of the report shape; "has" names the keys it carries, and
\* sourcesType what its "sources" key holds: "array" (a list of strings),
\* "number" (a truthy value that is not iterable) or "null".
JsonObject(has, sources, rawMarkdown) ==
    [type |-> "object", has |-> has,
     title |-> IF "title" \in has THEN <<"Project Title">> ELSE <<>>,
     location |-> IF "location" \in has THEN <<"Location Description">> ELSE <<>>,
     geologicalSummary |-> IF "geologicalSummary" \in has THEN "Detailed summary" ELSE "",
     mineralPotential |-> IF "mineralPotential" \in has THEN <<"Platinum">> ELSE <<>>,
     nearbyProjects |-> IF "nearbyProjects" \in has THEN <<"Project A">> ELSE <<>>,
     recommendations |-> IF "recommendations" \in has THEN "Drill" ELSE "",
     riskAssessment |-> IF "riskAssessment" \in has THEN "Low" ELSE "",
     sources |-> IF "sources" \in has THEN sources ELSE <<>>,
     rawMarkdown |-> IF "rawMarkdown" \in has THEN rawMarkdown ELSE "",
     mineralFocus |-> "", targetMinerals |-> "", sourcesType |-> "array"]

\* The document "{}" that `response.text || "{}"` substitutes for no text.
EmptyObjectDoc == Doc("{}", FALSE, JsonObject({}, <<>>, ""))

\* `text || fallback` on a string: the empty string is falsy.
OrElse(text, fallback) == IF text = "" THEN fallback ELSE text

\* jsonStr.replace(/```json\n?/g, '').replace(/```\n?/g, '')
StripFences(doc) == [doc EXCEPT !.fenced = FALSE]

\* JSON.parse: throws on a fenced or non-JSON string, else the value.
JSONParse(doc) ==
    IF doc.fenced \/ doc.content = NotJson
    THEN [threw |-> TRUE]
    ELSE [threw |-> FALSE, value |-> doc.content]

\* groundingChunks?.map(c => c.web?.uri).filter(uri => uri) || []
\* A chunk is its web.uri, "" when it has none.
GroundingSources(chunks) == SelectSeq(chunks, LAMBDA uri : uri # "")

\* [...new Set(seq)]: the elements of seq in first-insertion order, once each.
SpreadOfSet(seq) ==
    LET F[i \in 0..Len(seq)] ==
            IF i = 0 THEN <<>>
            ELSE IF \E j \in 1..Len(F[i-1]) : F[i-1][j] = seq[i]
                 THEN F[i-1]
                 ELSE Append(F[i-1], seq[i])
    IN F[Len(seq)]

\* --------------------------------------------------------- geminiService
\* A settled promise of a service function.
Rejected == [threw |-> TRUE]
Resolved(v) == [threw |-> FALSE, value |-> v]

\* The analysis request: what handleAnalysis passes to the service.
Request(coords, name, areaPolygon, mineralFocus) ==
    [coords |-> coords, locationName |-> name, areaPolygon |-> areaPolygon,
     mineralFocus |-> mineralFocus]

\* A number in a template literal.  A coordinate is held in hundredths of a
\* degree, the mean of n points as their sum over n (field per).
NumberText(value, per) ==
    IF per = 1 THEN <<ToString(value)>>
    ELSE <<ToString(value), "/", ToString(per)>>

\* The catch branch of the parse (geminiService.ts 285-295).
FallbackReport(req, text) ==
    [type |-> "object",
     has |-> {"title", "location", "geologicalSummary", "mineralPotential",
              "nearbyProjects", "recommendations", "riskAssessment", "sources",
              "rawMarkdown"},
     title |-> <<"Exploration Report: ", req.locationName>>,
     location |-> NumberText(req.coords.lat, req.coords.per) \o <<", ">>
                  \o NumberText(req.coords.lng, req.coords.per),
     geologicalSummary |-> OrElse(text, "Analysis complete but formatting failed."),
     mineralPotential |-> <<>>,
     nearbyProjects |-> <<>>,
     recommendations |-> "Review raw output.",
     riskAssessment |-> "N/A",
     sources |-> <<>>,
     rawMarkdown |-> OrElse(text, ""),
     mineralFocus |-> "", targetMinerals |-> "", sourcesType |-> "array"]

\* `value.key = x` raises a TypeError on null, and on a primitive in the
\* strict mode of an ES module.
RejectsProperties(value) == value.type \in {"null", "number"}

\* `parsedData.sources` is truthy: the key is there and does not hold null.
SourcesTruthy(parsedData) ==
    "sources" \in parsedData.has /\ parsedData.sourcesType # "null"

\* `[...parsedData.sources]` raises a TypeError: the value is not iterable.
SpreadThrows(parsedData) ==
    "sources" \in parsedData.has /\ parsedData.sourcesType = "number"

\* parsedData.sources = [...new Set([...(parsedData.sources || []), ...groundingSources])]
MergeSources(parsedData, groundingSources) ==
    [parsedData EXCEPT
        !.sources = SpreadOfSet((IF SourcesTruthy(parsedData)
                                 THEN parsedData.sources ELSE <<>>)
                                \o groundingSources),
        !.sourcesType = "array",
        !.has = @ \cup {"sources"}]

\* Mutation of analyzeGeology: the outer catch returns the fallback report
\* instead of rethrowing, as the other service functions do.
analyzeGeology_swallow(req, gw) ==
    IF ~gw.ok THEN Resolved(MergeSources(FallbackReport(req, ""), <<>>))
    ELSE
      LET jsonStr == StripFences(IF gw.doc.text = "" THEN EmptyObjectDoc ELSE gw.doc)
          groundingSources == GroundingSources(gw.chunks)
          parsed == JSONParse(jsonStr)
          parsedData == IF parsed.threw THEN FallbackReport(req, gw.doc.text)
                        ELSE parsed.value
          focused == [parsedData EXCEPT !.mineralFocus = req.mineralFocus,
                                        !.has = @ \cup {"mineralFocus"}]
      IN Resolved(MergeSources(focused, groundingSources))

\* analyzeGeology (geminiService.ts 222-306) on the gateway's answer gw.  The
\* two statements after the parse (298-299) run outside the inner try: what
\* they raise reaches the outer catch, which rethrows.
analyzeGeology(req, gw) ==
    IF ~gw.ok THEN Rejected
    ELSE
      LET jsonStr == StripFences(IF gw.doc.text = "" THEN EmptyObjectDoc ELSE gw.doc)
          groundingSources == GroundingSources(gw.chunks)
          parsed == JSONParse(jsonStr)
          parsedData == IF parsed.threw THEN FallbackReport(req, gw.doc.text)
                        ELSE parsed.value
          focused == [parsedData EXCEPT !.mineralFocus = req.mineralFocus,
                                        !.has = @ \cup {"mineralFocus"}]
      IN IF RejectsProperties(parsedData) THEN Rejected
         ELSE IF SpreadThrows(parsedData) THEN Rejected
         ELSE Resolved(MergeSources(focused, groundingSources))

\* The catch branch of the parse in the older revision (geminiService.ts 81-92).
FallbackReport_r1(req, text) ==
    [type |-> "object",
     has |-> {"title", "location", "geologicalSummary", "mineralPotential",
              "nearbyProjects", "recommendations", "riskAssessment", "sources",
              "targetMinerals", "rawMarkdown"},
     title |-> <<"Exploration Dossier: ", req.locationName>>,
     location |-> NumberText(req.coords.lat, req.coords.per) \o <<", ">>
                  \o NumberText(req.coords.lng, req.coords.per),
     geologicalSummary |-> "Analysis generated successfully.",
     mineralPotential |-> <<"Unknown">>,
     nearbyProjects |-> <<>>,
     recommendations |-> "Further ground-truthing required.",
     riskAssessment |-> "Information limited.",
     sources |-> <<>>,
     rawMarkdown |-> OrElse(text, "# Exploration Report\nNo markdown available."),
     mineralFocus |-> "", targetMinerals |-> req.mineralFocus,
     sourcesType |-> "array"]

\* if (parsedData.sources) { ... new Set ... } else { parsedData.sources = groundingSources }
\* (geminiService.ts 95-99); an array, even an empty one, is truthy.
MergeSources_r1(parsedData, groundingSources) ==
    IF SourcesTruthy(parsedData)
    THEN [parsedData EXCEPT
            !.sources = SpreadOfSet(parsedData.sources \o groundingSources)]
    ELSE [parsedData EXCEPT !.sources = groundingSources,
                            !.sourcesType = "array",
                            !.has = @ \cup {"sources"}]

\* analyzeGeology of the older revision (geminiService.ts 13-107): no fence
\* stripping; targetMinerals is attached inside the inner try (78), so what
\* that assignment raises is caught there and gives the fallback report.
analyzeGeology_r1(req, gw) ==
    IF ~gw.ok THEN Rejected
    ELSE
      LET jsonStr == IF gw.doc.text = "" THEN EmptyObjectDoc ELSE gw.doc
          groundingSources == GroundingSources(gw.chunks)
          parsed == JSONParse(jsonStr)
          parsedData == IF parsed.threw THEN FallbackReport_r1(req, gw.doc.text)
                        ELSE IF RejectsProperties(parsed.value)
                        THEN FallbackReport_r1(req, gw.doc.text)
                        ELSE [parsed.value EXCEPT
                                !.targetMinerals = req.mineralFocus,
                                !.has = @ \cup {"targetMinerals"}]
      IN IF SpreadThrows(parsedData) THEN Rejected
         ELSE Resolved(MergeSources_r1(parsedData, groundingSources))

\* Mutation of performDeepThinkingAnalysis: the catch rethrows.
performDeepThinkingAnalysis_rethrow(gw) ==
    IF ~gw.ok THEN Rejected
    ELSE Resolved(OrElse(gw.doc.text, "Analysis failed."))

\* performDeepThinkingAnalysis (geminiService.ts 308-320): never rejects.
performDeepThinkingAnalysis(gw) ==
    IF ~gw.ok THEN Resolved("Deep thinking analysis unavailable.")
    ELSE Resolved(OrElse(gw.doc.text, "Analysis failed."))

\* Mutation of quickGeologyScan: the catch returns a notice, as the deep
\* analysis does, instead of the empty string.
quickGeologyScan_notice(gw) ==
    IF ~gw.ok THEN Resolved("Quick scan unavailable.")
    ELSE Resolved(OrElse(gw.doc.text, "No data."))

\* quickGeologyScan (geminiService.ts 322-332): never rejects.
quickGeologyScan(gw) ==
    IF ~gw.ok THEN Resolved("")
    ELSE Resolved(OrElse(gw.doc.text, "No data."))

\* findNearbyMines (geminiService.ts 334-352): never rejects.  The text is
\* carried as its lines; a line is kept when it includes "- " or starts with
\* a digit and a dot, and its title is the line with the first "- " or "* "
\* removed, trimmed.
LineKept(line) == line.mark \in {"dash", "numbered"}
LineTitle(line) ==
    IF line.mark = "dash" THEN [title |-> <<line.name>>]
    ELSE [title |-> <<"1. ", line.name>>]
findNearbyMines(gw) ==
    IF ~gw.ok THEN Resolved(<<>>)
    ELSE LET kept == SelectSeq(gw.doc.content.lines, LineKept)
         IN Resolved([i \in 1..Len(kept) |-> LineTitle(kept[i])])

\* Mutation of generateChartData: the catch rethrows.
generateChartData_rethrow(gw) ==
    IF ~gw.ok THEN Rejected
    ELSE IF gw.doc.text = "" THEN Resolved(<<>>)
    ELSE LET parsed == JSONParse(gw.doc)
         IN IF parsed.threw THEN Rejected
            ELSE Resolved(parsed.value.items)

\* generateChartData (geminiService.ts 374-401): never rejects; a failed
\* call, an empty text and a text JSON.parse rejects all give [].
generateChartData(gw) ==
    IF ~gw.ok THEN Resolved(<<>>)
    ELSE IF gw.doc.text = "" THEN Resolved(<<>>)
    ELSE LET parsed == JSONParse(gw.doc)
         IN IF parsed.threw THEN Resolved(<<>>)
            ELSE Resolved(parsed.value.items)

\* ----------------------------------------------------- gateway answer sets
\* The answers the remote service is let to give, per call profile.
SeqsUpTo(S, n) == UNION {[1..k -> S] : k \in 0..n}

ProseDoc == Doc("not json at all", FALSE, NotJson)
NoTextDoc == Doc("", FALSE, NotJson)
ReportKeys == {"title", "location", "geologicalSummary", "mineralPotential",
               "nearbyProjects", "recommendations", "riskAssessment", "sources",
               "rawMarkdown"}
ReportDoc(fenced, has, sources) ==
    Doc(IF fenced THEN "<fence>json {report} <fence>" ELSE "{report}", fenced,
        JsonObject(has, sources, "# Report"))

\* Full-report answers of the analysis run.
AgAnswers ==
    {Failed,
     Response(ReportDoc(FALSE, ReportKeys, <<"a", "b", "a">>), <<"b", "c">>),
     Response(ProseDoc, <<"c">>)}

ChartArray(items) == Doc("[points]", FALSE, [type |-> "array", items |-> items])
PointsA == <<[depth |-> 0, resistivity |-> 120, magneticSusceptibility |-> 3],
             [depth |-> 10, resistivity |-> 95, magneticSusceptibility |-> 4]>>
PointsB == <<[depth |-> 0, resistivity |-> 300, magneticSusceptibility |-> 1]>>
CdAnswers ==
    {Failed,
     Response(ChartArray(PointsA), <<>>),
     Response(ChartArray(PointsB), <<>>)}

DeepAnswers ==
    {Failed,
     Response(Doc("Deep crustal treatise.", FALSE, NotJson), <<>>)}

QuickAnswers ==
    {Failed,
     Response(Doc("Bushveld norite.", FALSE, NotJson), <<>>)}

Lines(text, lines) == Doc(text, FALSE, [type |-> "lines", lines |-> lines])
MinesAnswers ==
    {Failed,
     Response(Lines("mines", <<[mark |-> "plain", name |-> "Nearby mines:"],
                               [mark |-> "dash", name |-> "Pilanesberg PGM"],
                               [mark |-> "numbered", name |-> "Bakubung"]>>), <<>>)}

\* ------------------------------------------------------------------- App
\* const DEFAULT_COORDS = { lat: -25.2, lng: 27.08 }, in hundredths of a degree.
DEFAULT_COORDS == [lat |-> 0 - 2520, lng |-> 2708]

\* The points a map click can give (MapContainer.tsx 62-65), in hundredths
\* of a degree.
MapPoints == {[lat |-> 0 - 2500, lng |-> 2700], [lat |-> 0 - 2400, lng |-> 2900]}

\* A selected point as a target: the number itself, over 1.
Exact(c) == [lat |-> c.lat, lng |-> c.lng, per |-> 1]

\* points.reduce((s, p) => s + p.lat, 0) and the same for lng.
SumLat(points) ==
    LET F[i \in 0..Len(points)] == IF i = 0 THEN 0 ELSE F[i-1] + points[i].lat
    IN F[Len(points)]
SumLng(points) ==
    LET F[i \in 0..Len(points)] == IF i = 0 THEN 0 ELSE F[i-1] + points[i].lng
    IN F[Len(points)]

\* Mutation of Centroid: the sums are not divided by the number of points.
Centroid_sum(points) ==
    [lat |-> SumLat(points), lng |-> SumLng(points), per |-> 1]

\* The mean of getTargetCoords (App.tsx 71-74): each sum over points.length.
Centroid(points) ==
    [lat |-> SumLat(points), lng |-> SumLng(points), per |-> Len(points)]

\* Mutation of getTargetCoords: the mean is taken whenever three points are
\* plotted, enforced or not.
getTargetCoords_unenforced ==
    IF Len(plottedPoints) >= 3 THEN Centroid(plottedPoints) ELSE Exact(coordinates)

\* getTargetCoords (App.tsx 69-77).
getTargetCoords ==
    IF usePlottedArea /\ Len(plottedPoints) >= 3
    THEN Centroid(plottedPoints)
    ELSE Exact(coordinates)

\* A promise of the run: not created, in flight, or settled with the
\* gateway's verdict and the service function's result.
NoCall == [st |-> "none"]
Pending == [st |-> "pending"]
Settled(gw, result) == [st |-> "settled", gwOk |-> gw.ok, result |-> result]

IsResolved(call) == call.st = "settled" /\ ~call.result.threw
IsRejected(call) == call.st = "settled" /\ call.result.threw

\* A side call in flight: its kind, the handler invocation that made it and
\* the target it was given.
SideCall(kind, origin, n, coords) ==
    [kind |-> kind, origin |-> origin, n |-> n, coords |-> coords]
\* No call has written the field since it was last set by a handler.
NoOne == [kind |-> "none", origin |-> "none", n |-> 0, coords |-> Exact(DEFAULT_COORDS)]
Verdict(gw) == IF gw.ok THEN "ok" ELSE "failed"

\* Mutation of StageTimers: the SCRAPING_DATA timer set past the last one.
StageTimers_lateScrape ==
    {[delay |-> 800, cb |-> "FETCHING_SATELLITE"],
     [delay |-> 2000, cb |-> "PROCESSING_GEOPHYSICS"],
     [delay |-> 5500, cb |-> "SCRAPING_DATA"],
     [delay |-> 5000, cb |-> "ANALYZING_AI"]}

\* The four setTimeout calls of handleAnalysis (App.tsx 98-102).
StageTimers ==
    {[delay |-> 800, cb |-> "FETCHING_SATELLITE"],
     [delay |-> 2000, cb |-> "PROCESSING_GEOPHYSICS"],
     [delay |-> 3500, cb |-> "SCRAPING_DATA"],
     [delay |-> 5000, cb |-> "ANALYZING_AI"]}

\* Mutation of DueTimers: the pending timers run in any order.
DueTimers_anyOrder(ts) == ts

\* The event loop runs the pending timer that is due first; the timers of a
\* run are all set in the same turn, so the one with the least delay.
DueTimers(ts) == {t \in ts : \A u \in ts : t.delay <= u.delay}

\* useState of the run (App.tsx 17-22) and no run in flight.
RunInit ==
    /\ status = "IDLE"
    /\ report = Null
    /\ chartData = <<>>
    /\ deepAnalysisResult = Null
    /\ quickScanResult = ""
    /\ nearbyPlaces = <<>>
    /\ timers = {}
    /\ pc = "none"
    /\ useDeepThinking = FALSE
    /\ agCall = NoCall
    /\ cdCall = NoCall
    /\ deepCall = NoCall
    /\ sideCalls = {}
    /\ quickGw = "none"
    /\ minesGw = "none"
    /\ runs = 0
    /\ scans = 0
    /\ targetCoords = Exact(DEFAULT_COORDS)
    /\ polygon = Null
    /\ locationName = ""
    /\ quickBy = NoOne
    /\ minesBy = NoOne
    /\ alerts = 0

\* useState of the selected point and the plotted boundary (App.tsx 16, 27-29).
AreaInit ==
    /\ coordinates = DEFAULT_COORDS
    /\ isPlottingMode = FALSE
    /\ plottedPoints = <<>>
    /\ usePlottedArea = FALSE
    /\ uploadError = Null

AppInit == RunInit /\ AreaInit

\* Mutation of isLoading: the button is never disabled.
isLoading_never == FALSE

\* Sidebar: the EXECUTE ANALYSIS button is disabled while isLoading.
isLoading == status # "IDLE" /\ status # "COMPLETE" /\ status # "ERROR"

\* Mutation of handleAnalysis: the quick scan of the run is issued twice.
handleAnalysis_twoScans(loc, useDeep) ==
    /\ status' = "UPLOADING"
    /\ report' = Null
    /\ deepAnalysisResult' = Null
    /\ sideCalls' = sideCalls \cup {SideCall("quick", "run", runs + 1, getTargetCoords),
                                    SideCall("quick", "again", runs + 1, getTargetCoords),
                                    SideCall("mines", "run", runs + 1, getTargetCoords)}
    /\ timers' = timers \cup StageTimers
    /\ useDeepThinking' = useDeep
    /\ agCall' = NoCall
    /\ cdCall' = NoCall
    /\ deepCall' = NoCall
    /\ pc' = "timers"
    /\ runs' = runs + 1
    /\ targetCoords' = getTargetCoords
    /\ polygon' = IF usePlottedArea /\ Len(plottedPoints) >= 3
                  THEN Some(plottedPoints) ELSE Null
    /\ locationName' = loc
    /\ UNCHANGED <<chartData, quickScanResult, nearbyPlaces, quickGw, minesGw,
                   scans>>
    /\ UNCHANGED xVars
    /\ UNCHANGED byVars
    /\ UNCHANGED noticeVars
    /\ UNCHANGED areaVars

\* Mutation of handleAnalysis: the side calls still in flight are dropped.
handleAnalysis_cancel(loc, useDeep) ==
    /\ status' = "UPLOADING"
    /\ report' = Null
    /\ deepAnalysisResult' = Null
    /\ sideCalls' = {SideCall("quick", "run", runs + 1, getTargetCoords),
                     SideCall("mines", "run", runs + 1, getTargetCoords)}
    /\ timers' = timers \cup StageTimers
    /\ useDeepThinking' = useDeep
    /\ agCall' = NoCall
    /\ cdCall' = NoCall
    /\ deepCall' = NoCall
    /\ pc' = "timers"
    /\ runs' = runs + 1
    /\ targetCoords' = getTargetCoords
    /\ polygon' = IF usePlottedArea /\ Len(plottedPoints) >= 3
                  THEN Some(plottedPoints) ELSE Null
    /\ locationName' = loc
    /\ UNCHANGED <<chartData, quickScanResult, nearbyPlaces, quickGw, minesGw,
                   scans>>
    /\ UNCHANGED xVars
    /\ UNCHANGED byVars
    /\ UNCHANGED noticeVars
    /\ UNCHANGED areaVars

\* Mutation of handleAnalysis: setReport(null) left out.
handleAnalysis_keepReport(loc, useDeep) ==
    /\ status' = "UPLOADING"
    /\ deepAnalysisResult' = Null
    /\ sideCalls' = sideCalls \cup {SideCall("quick", "run", runs + 1, getTargetCoords),
                                    SideCall("mines", "run", runs + 1, getTargetCoords)}
    /\ timers' = timers \cup StageTimers
    /\ useDeepThinking' = useDeep
    /\ agCall' = NoCall
    /\ cdCall' = NoCall
    /\ deepCall' = NoCall
    /\ pc' = "timers"
    /\ runs' = runs + 1
    /\ targetCoords' = getTargetCoords
    /\ polygon' = IF usePlottedArea /\ Len(plottedPoints) >= 3
                  THEN Some(plottedPoints) ELSE Null
    /\ locationName' = loc
    /\ UNCHANGED <<report, chartData, quickScanResult, nearbyPlaces, quickGw, minesGw,
                   scans>>
    /\ UNCHANGED xVars
    /\ UNCHANGED byVars
    /\ UNCHANGED noticeVars
    /\ UNCHANGED areaVars

\* handleAnalysis (App.tsx 84-118), the synchronous part: up to the four
\* setTimeout calls.  chartData, quickScanResult and nearbyPlaces are not
\* written here.
handleAnalysis(loc, useDeep) ==
    /\ status' = "UPLOADING"
    /\ report' = Null
    /\ deepAnalysisResult' = Null
    /\ sideCalls' = sideCalls \cup {SideCall("quick", "run", runs + 1, getTargetCoords),
                                    SideCall("mines", "run", runs + 1, getTargetCoords)}
    /\ timers' = timers \cup StageTimers
    /\ useDeepThinking' = useDeep
    /\ agCall' = NoCall
    /\ cdCall' = NoCall
    /\ deepCall' = NoCall
    /\ pc' = "timers"
    /\ runs' = runs + 1
    /\ targetCoords' = getTargetCoords
    /\ polygon' = IF usePlottedArea /\ Len(plottedPoints) >= 3
                  THEN Some(plottedPoints) ELSE Null
    /\ locationName' = loc
    /\ UNCHANGED <<chartData, quickScanResult, nearbyPlaces, quickGw, minesGw,
                   scans>>
    /\ UNCHANGED xVars
    /\ UNCHANGED byVars
    /\ UNCHANGED noticeVars
    /\ UNCHANGED areaVars

\* Sidebar.handleSearch (Sidebar.tsx 50-53): the click on the enabled button
\* starts a run; the location input is left empty.
handleSearch ==
    /\ ~isLoading
    /\ runs + scans < MaxStarts
    /\ \E useDeep \in BOOLEAN :
          handleAnalysis(IF usePlottedArea THEN "Plotted Area" ELSE "Selected Point",
                         useDeep)

\* handleQuickScan (App.tsx 79-82): the placeholder text, then the scan.
handleQuickScan ==
    /\ runs + scans < MaxStarts
    /\ quickScanResult' = "Thinking..."
    /\ quickGw' = "none"
    /\ sideCalls' = sideCalls \cup {SideCall("quick", "scan", scans + 1, getTargetCoords)}
    /\ scans' = scans + 1
    /\ quickBy' = NoOne
    /\ UNCHANGED <<status, report, chartData, deepAnalysisResult, nearbyPlaces,
                   timers, pc, useDeepThinking, agCall, cdCall, deepCall,
                   minesGw, runs, minesBy>>
    /\ UNCHANGED xVars
    /\ UNCHANGED noticeVars
    /\ UNCHANGED areaVars
    /\ UNCHANGED closureVars

\* The arguments the run passes to analyzeGeology (App.tsx 106).
RunRequest == Request(targetCoords, locationName, polygon, "")

\* Mutation of AfterAll: setStatus(COMPLETE) left out of the path that does
\* not ask for deep reasoning.
AfterAll_noComplete(result, data) ==
    /\ report' = Some(result @@ [mapSnapshot |-> "tile", center |-> targetCoords,
                                   boundary |-> polygon])
    /\ chartData' = data
    /\ IF useDeepThinking
       THEN /\ deepCall' = Pending
            /\ pc' = "awaitDeep"
            /\ UNCHANGED status
       ELSE /\ pc' = "done"
            /\ UNCHANGED <<status, deepCall>>

\* Mutation of AfterAll: setStatus(COMPLETE) moved before the await of the
\* deep-reasoning call.
AfterAll_completeFirst(result, data) ==
    /\ report' = Some(result @@ [mapSnapshot |-> "tile", center |-> targetCoords,
                                   boundary |-> polygon])
    /\ chartData' = data
    /\ status' = "COMPLETE"
    /\ IF useDeepThinking
       THEN /\ deepCall' = Pending
            /\ pc' = "awaitDeep"
       ELSE /\ pc' = "done"
            /\ UNCHANGED deepCall

\* Mutation of AfterAll: the center and the boundary of the report are read
\* from the state at the time of the commit.
AfterAll_liveTarget(result, data) ==
    /\ report' = Some(result @@ [mapSnapshot |-> "tile", center |-> getTargetCoords,
                                   boundary |-> IF usePlottedArea /\ Len(plottedPoints) >= 3
                                                THEN Some(plottedPoints) ELSE Null])
    /\ chartData' = data
    /\ IF useDeepThinking
       THEN /\ deepCall' = Pending
            /\ pc' = "awaitDeep"
            /\ UNCHANGED status
       ELSE /\ status' = "COMPLETE"
            /\ pc' = "done"
            /\ UNCHANGED deepCall

\* The statements after `await Promise.all([...])` (App.tsx 109-112), run
\* with both results in hand.
AfterAll(result, data) ==
    /\ report' = Some(result @@ [mapSnapshot |-> "tile", center |-> targetCoords,
                                   boundary |-> polygon])
    /\ chartData' = data
    /\ IF useDeepThinking
       THEN /\ deepCall' = Pending
            /\ pc' = "awaitDeep"
            /\ UNCHANGED status
       ELSE /\ status' = "COMPLETE"
            /\ pc' = "done"
            /\ UNCHANGED deepCall

\* Mutation of FireTimer: the deep-reasoning call is issued with the two
\* required calls.
FireTimer_deepAtOnce ==
    \E t \in DueTimers(timers) :
        /\ timers' = timers \ {t}
        /\ status' = t.cb
        /\ IF t.cb = "ANALYZING_AI"
           THEN /\ agCall' = Pending
                /\ cdCall' = Pending
                /\ deepCall' = IF useDeepThinking THEN Pending ELSE deepCall
                /\ pc' = "awaitAll"
           ELSE UNCHANGED <<agCall, cdCall, deepCall, pc>>
        /\ UNCHANGED <<report, chartData, deepAnalysisResult, quickScanResult,
                       nearbyPlaces, useDeepThinking, sideCalls,
                       quickGw, minesGw, runs, scans>>
        /\ UNCHANGED xVars
        /\ UNCHANGED byVars
        /\ UNCHANGED noticeVars
        /\ UNCHANGED areaVars
        /\ UNCHANGED closureVars

\* Mutation of FireTimer: the stage timers wait for the side calls.
FireTimer_afterSideCalls ==
    /\ sideCalls = {}
    /\ \E t \in DueTimers(timers) :
        /\ timers' = timers \ {t}
        /\ status' = t.cb
        /\ IF t.cb = "ANALYZING_AI"
           THEN /\ agCall' = Pending
                /\ cdCall' = Pending
                /\ pc' = "awaitAll"
           ELSE UNCHANGED <<agCall, cdCall, pc>>
        /\ UNCHANGED <<report, chartData, deepAnalysisResult, quickScanResult,
                       nearbyPlaces, useDeepThinking, deepCall, sideCalls,
                       quickGw, minesGw, runs, scans>>
        /\ UNCHANGED xVars
        /\ UNCHANGED byVars
        /\ UNCHANGED noticeVars
        /\ UNCHANGED areaVars
        /\ UNCHANGED closureVars

\* A stage timer fires (App.tsx 98-100), or the last timer does and its
\* async callback runs up to `await Promise.all` (App.tsx 102-108).
FireTimer ==
    \E t \in DueTimers(timers) :
        /\ timers' = timers \ {t}
        /\ status' = t.cb
        /\ IF t.cb = "ANALYZING_AI"
           THEN /\ agCall' = Pending
                /\ cdCall' = Pending
                /\ pc' = "awaitAll"
           ELSE UNCHANGED <<agCall, cdCall, pc>>
        /\ UNCHANGED <<report, chartData, deepAnalysisResult, quickScanResult,
                       nearbyPlaces, useDeepThinking, deepCall, sideCalls,
                       quickGw, minesGw, runs, scans>>
        /\ UNCHANGED xVars
        /\ UNCHANGED byVars
        /\ UNCHANGED noticeVars
        /\ UNCHANGED areaVars
        /\ UNCHANGED closureVars

\* Mutation of AgSettle: the catch block also clears the side-call fields.
AgSettle_clearSide ==
    /\ agCall = Pending
    /\ \E gw \in AgAnswers :
        LET result == analyzeGeology(RunRequest, gw) IN
        /\ agCall' = Settled(gw, result)
        /\ IF result.threw
           THEN /\ status' = "ERROR"
                /\ pc' = "done"
                /\ quickScanResult' = ""
                /\ nearbyPlaces' = <<>>
                /\ UNCHANGED <<report, chartData, deepCall>>
           ELSE IF IsResolved(cdCall)
           THEN AfterAll(result.value, cdCall.result.value)
                /\ UNCHANGED <<quickScanResult, nearbyPlaces>>
           ELSE UNCHANGED <<status, pc, report, chartData, deepCall,
                            quickScanResult, nearbyPlaces>>
    /\ UNCHANGED <<deepAnalysisResult, timers, useDeepThinking, cdCall,
                   sideCalls, quickGw, minesGw, runs, scans>>
    /\ UNCHANGED xVars
    /\ UNCHANGED byVars
    /\ UNCHANGED noticeVars
    /\ UNCHANGED areaVars
    /\ UNCHANGED closureVars

\* The gateway answers the full-report call and analyzeGeology settles.  A
\* rejection rejects Promise.all at once (catch, App.tsx 113-115); a result
\* resumes the callback when the chart data is already there.
AgSettle ==
    /\ agCall = Pending
    /\ \E gw \in AgAnswers :
        LET result == analyzeGeology(RunRequest, gw) IN
        /\ agCall' = Settled(gw, result)
        /\ IF result.threw
           THEN /\ status' = "ERROR"
                /\ pc' = "done"
                /\ UNCHANGED <<report, chartData, deepCall>>
           ELSE IF IsResolved(cdCall)
           THEN AfterAll(result.value, cdCall.result.value)
           ELSE UNCHANGED <<status, pc, report, chartData, deepCall>>
    /\ UNCHANGED <<deepAnalysisResult, quickScanResult, nearbyPlaces, timers,
                   useDeepThinking, cdCall, sideCalls, quickGw, minesGw,
                   runs, scans>>
    /\ UNCHANGED xVars
    /\ UNCHANGED byVars
    /\ UNCHANGED noticeVars
    /\ UNCHANGED areaVars
    /\ UNCHANGED closureVars

\* Mutation of CdSettle: the chart data is committed as soon as it is there.
CdSettle_commitEarly ==
    /\ cdCall = Pending
    /\ \E gw \in CdAnswers :
        LET data == generateChartData(gw) IN
        /\ cdCall' = Settled(gw, data)
        /\ IF pc = "awaitAll" /\ data.threw
           THEN /\ status' = "ERROR"
                /\ pc' = "done"
                /\ UNCHANGED <<report, chartData, deepCall>>
           ELSE IF pc = "awaitAll" /\ IsResolved(agCall)
           THEN AfterAll(agCall.result.value, data.value)
           ELSE /\ chartData' = data.value
                /\ UNCHANGED <<status, pc, report, deepCall>>
    /\ UNCHANGED <<deepAnalysisResult, quickScanResult, nearbyPlaces, timers,
                   useDeepThinking, agCall, sideCalls, quickGw, minesGw,
                   runs, scans>>
    /\ UNCHANGED xVars
    /\ UNCHANGED byVars
    /\ UNCHANGED noticeVars
    /\ UNCHANGED areaVars
    /\ UNCHANGED closureVars

\* The gateway answers the chart-data call and generateChartData settles.
CdSettle ==
    /\ cdCall = Pending
    /\ \E gw \in CdAnswers :
        LET data == generateChartData(gw) IN
        /\ cdCall' = Settled(gw, data)
        /\ IF pc = "awaitAll" /\ data.threw
           THEN /\ status' = "ERROR"
                /\ pc' = "done"
                /\ UNCHANGED <<report, chartData, deepCall>>
           ELSE IF pc = "awaitAll" /\ IsResolved(agCall)
           THEN AfterAll(agCall.result.value, data.value)
           ELSE UNCHANGED <<status, pc, report, chartData, deepCall>>
    /\ UNCHANGED <<deepAnalysisResult, quickScanResult, nearbyPlaces, timers,
                   useDeepThinking, agCall, sideCalls, quickGw, minesGw,
                   runs, scans>>
    /\ UNCHANGED xVars
    /\ UNCHANGED byVars
    /\ UNCHANGED noticeVars
    /\ UNCHANGED areaVars
    /\ UNCHANGED closureVars

\* The deep-reasoning call settles and the callback finishes (App.tsx 111-112).
DeepSettle ==
    /\ deepCall = Pending
    /\ \E gw \in DeepAnswers :
        LET text == performDeepThinkingAnalysis(gw) IN
        /\ deepCall' = Settled(gw, text)
        /\ IF text.threw
           THEN /\ status' = "ERROR"
                /\ UNCHANGED deepAnalysisResult
           ELSE /\ deepAnalysisResult' = Some(text.value)
                /\ status' = "COMPLETE"
    /\ pc' = "done"
    /\ UNCHANGED <<report, chartData, quickScanResult, nearbyPlaces, timers,
                   useDeepThinking, agCall, cdCall, sideCalls, quickGw, minesGw,
                   runs, scans>>
    /\ UNCHANGED xVars
    /\ UNCHANGED byVars
    /\ UNCHANGED noticeVars
    /\ UNCHANGED areaVars
    /\ UNCHANGED closureVars

\* A quick scan settles: .then(setQuickScanResult) (App.tsx 81, 92).
QuickSettle ==
    \E c \in sideCalls, gw \in QuickAnswers :
        /\ c.kind = "quick"
        /\ quickScanResult' = quickGeologyScan(gw).value
        /\ quickGw' = Verdict(gw)
        /\ quickBy' = c
        /\ sideCalls' = sideCalls \ {c}
        /\ UNCHANGED <<status, report, chartData, deepAnalysisResult, nearbyPlaces,
                       timers, pc, useDeepThinking, agCall, cdCall, deepCall,
                       minesGw, runs, scans, minesBy>>
        /\ UNCHANGED xVars
        /\ UNCHANGED noticeVars
        /\ UNCHANGED areaVars
        /\ UNCHANGED closureVars

\* A nearby-site lookup settles: .then(setNearbyPlaces) (App.tsx 93).
MinesSettle ==
    \E c \in sideCalls, gw \in MinesAnswers :
        /\ c.kind = "mines"
        /\ nearbyPlaces' = findNearbyMines(gw).value
        /\ minesGw' = Verdict(gw)
        /\ minesBy' = c
        /\ sideCalls' = sideCalls \ {c}
        /\ UNCHANGED <<status, report, chartData, deepAnalysisResult, quickScanResult,
                       timers, pc, useDeepThinking, agCall, cdCall, deepCall,
                       quickGw, runs, scans, quickBy>>
        /\ UNCHANGED xVars
        /\ UNCHANGED noticeVars
        /\ UNCHANGED areaVars
        /\ UNCHANGED closureVars

\* ------------------------------------------------------ Sidebar: parseCSV
\* A CSV text is carried as its non-blank lines, each split at the delimiter
\* into cells.  A cell is a word or the decimal text of a number, which is
\* held in hundredths of a degree.
Cell(kind, word, val) == [kind |-> kind, word |-> word, val |-> val]
Word(w) == Cell("word", w, 0)
Num(v) == Cell("number", "", v)

\* A JavaScript number: NaN, or a value.
NaN == [nan |-> TRUE]
Number(v) == [nan |-> FALSE, val |-> v]

\* parseFloat(clean(cell)).
parseFloat(cell) == IF cell.kind = "number" THEN Number(cell.val) ELSE NaN

\* parseFloat(parts[idx]); parts[-1] and a cell past the end are undefined,
\* which parses to NaN.  Indices count from 1, "not found" is 0.
FloatAt(parts, idx) ==
    IF idx \in 1..Len(parts) THEN parseFloat(parts[idx]) ELSE NaN

\* clean(cell).includes(sub), for the substrings parseCSV looks for.
KeywordsIn(word) ==
    CASE word = "latitude" -> {"lat"}
      [] word = "longitude" -> {"lon"}
      [] word = "northing" -> {"north"}
      [] word = "easting" -> {"east"}
      [] word = "city" -> {"y"}
      [] OTHER -> {}
Includes(cell, subs) == cell.kind = "word" /\ KeywordsIn(cell.word) \cap subs # {}

\* headers.findIndex(h => ...) over the cells of the first line.
FindIndex(cells, subs) ==
    IF \E i \in 1..Len(cells) : Includes(cells[i], subs)
    THEN CHOOSE i \in 1..Len(cells) :
            /\ Includes(cells[i], subs)
            /\ \A j \in 1..(i-1) : ~Includes(cells[j], subs)
    ELSE 0

\* points.push({ lat, lng }) for the rows the loop of parseCSV keeps, in
\* file order.
PointsOf(kept, latIdx, lngIdx) ==
    [i \in 1..Len(kept) |->
        [lat |-> FloatAt(kept[i], latIdx).val, lng |-> FloatAt(kept[i], lngIdx).val]]

\* parseCSV of Sidebar.tsx (72-88): the first line is always a header; a row
\* is kept when both cells parse.
parseCSV(lines) ==
    IF Len(lines) = 0 THEN <<>>
    ELSE
      LET latIdx == FindIndex(lines[1], {"lat", "y"})
          lngIdx == FindIndex(lines[1], {"lon", "lng", "x"})
          Accepts(parts) == /\ ~FloatAt(parts, latIdx).nan
                            /\ ~FloatAt(parts, lngIdx).nan
      IN PointsOf(SelectSeq(SubSeq(lines, 2, Len(lines)), Accepts), latIdx, lngIdx)

\* lat >= -90 && lat <= 90 && lng >= -180 && lng <= 180, in hundredths.
InRange(lat, lng) ==
    lat >= 0 - 9000 /\ lat <= 9000 /\ lng >= 0 - 18000 /\ lng <= 18000

\* parseCSV of the other Sidebar revision (src/unnamed/part_004 397-437):
\* without a header match the columns are the first two and the first line
\* is data when its first two cells parse; a row is kept when it is long
\* enough and both cells parse within range.
parseCSV_r1(lines) ==
    IF Len(lines) = 0 THEN <<>>
    ELSE
      LET foundLat == FindIndex(lines[1], {"lat", "north", "y"})
          foundLng == FindIndex(lines[1], {"lon", "lng", "east", "x"})
          noHeader == foundLat = 0 \/ foundLng = 0
          latIndex == IF noHeader THEN 1 ELSE foundLat
          lngIndex == IF noHeader THEN 2 ELSE foundLng
          startIndex == IF /\ noHeader
                           /\ ~FloatAt(lines[1], 1).nan
                           /\ ~FloatAt(lines[1], 2).nan
                        THEN 1 ELSE 2
          Accepts(parts) ==
              /\ Len(parts) >= latIndex /\ Len(parts) >= lngIndex
              /\ ~FloatAt(parts, latIndex).nan
              /\ ~FloatAt(parts, lngIndex).nan
              /\ InRange(FloatAt(parts, latIndex).val, FloatAt(parts, lngIndex).val)
      IN PointsOf(SelectSeq(SubSeq(lines, startIndex, Len(lines)), Accepts),
                  latIndex, lngIndex)

\* ------------------------------------------------- App: boundary plotting
\* A map click (MapContainer.tsx 62-65): a plotted point in plotting mode
\* (addPlottedPoint, App.tsx 167), else the selected point.
MapClick ==
    \E c \in MapPoints :
        /\ IF isPlottingMode
           THEN /\ Len(plottedPoints) < MaxPoints
                /\ plottedPoints' = Append(plottedPoints, c)
                /\ UNCHANGED coordinates
           ELSE /\ coordinates' = c
                /\ UNCHANGED plottedPoints
        /\ UNCHANGED <<isPlottingMode, usePlottedArea>>
        /\ UNCHANGED <<status, report, chartData, deepAnalysisResult,
                       quickScanResult, nearbyPlaces, timers, pc, useDeepThinking,
                       agCall, cdCall, deepCall, sideCalls, quickGw, minesGw,
                       runs, scans>>
        /\ UNCHANGED closureVars
        /\ UNCHANGED xVars
        /\ UNCHANGED byVars
        /\ UNCHANGED noticeVars

\* togglePlottingMode (App.tsx 138).
togglePlottingMode ==
    /\ isPlottingMode' = ~isPlottingMode
    /\ UNCHANGED <<coordinates, plottedPoints, usePlottedArea>>
    /\ UNCHANGED <<status, report, chartData, deepAnalysisResult,
                   quickScanResult, nearbyPlaces, timers, pc, useDeepThinking,
                   agCall, cdCall, deepCall, sideCalls, quickGw, minesGw,
                   runs, scans>>
    /\ UNCHANGED closureVars
    /\ UNCHANGED xVars
    /\ UNCHANGED byVars
    /\ UNCHANGED noticeVars

\* The ENFORCE POLYGON BOUNDARY button (Sidebar.tsx 178-183): shown with at
\* least one plotted point, disabled with fewer than three.
toggleUsePlottedArea ==
    /\ Len(plottedPoints) > 0
    /\ ~(Len(plottedPoints) < 3)
    /\ usePlottedArea' = ~usePlottedArea
    /\ UNCHANGED <<coordinates, isPlottingMode, plottedPoints>>
    /\ UNCHANGED <<status, report, chartData, deepAnalysisResult,
                   quickScanResult, nearbyPlaces, timers, pc, useDeepThinking,
                   agCall, cdCall, deepCall, sideCalls, quickGw, minesGw,
                   runs, scans>>
    /\ UNCHANGED closureVars
    /\ UNCHANGED xVars
    /\ UNCHANGED byVars
    /\ UNCHANGED noticeVars

\* clearPlottedPoints (App.tsx 140), the WIPE button (Sidebar.tsx 187).
clearPlottedPoints ==
    /\ Len(plottedPoints) > 0
    /\ plottedPoints' = <<>>
    /\ usePlottedArea' = FALSE
    /\ UNCHANGED <<coordinates, isPlottingMode>>
    /\ UNCHANGED <<status, report, chartData, deepAnalysisResult,
                   quickScanResult, nearbyPlaces, timers, pc, useDeepThinking,
                   agCall, cdCall, deepCall, sideCalls, quickGw, minesGw,
                   runs, scans>>
    /\ UNCHANGED closureVars
    /\ UNCHANGED xVars
    /\ UNCHANGED byVars
    /\ UNCHANGED noticeVars

\* Mutation of importPlottedPoints: the imported points are added to the
\* plotted ones.
importPlottedPoints_append(pts) ==
    /\ plottedPoints' = plottedPoints \o pts
    /\ isPlottingMode' = TRUE
    /\ usePlottedArea' = IF Len(pts) >= 3 THEN TRUE ELSE usePlottedArea
    /\ UNCHANGED coordinates

\* importPlottedPoints (App.tsx 145).
importPlottedPoints(pts) ==
    /\ plottedPoints' = pts
    /\ isPlottingMode' = TRUE
    /\ usePlottedArea' = IF Len(pts) >= 3 THEN TRUE ELSE usePlottedArea
    /\ UNCHANGED coordinates

\* A file picked in the upload input: whether its size is over 5 MB, whether
\* its name ends in .csv, and its text as parseCSV takes it.
File(tooLarge, csv, lines) == [tooLarge |-> tooLarge, csv |-> csv, lines |-> lines]

\* The CSV files a user uploads: a header and up to MaxPoints rows, each a
\* map point; the file of the header alone holds no coordinate.
CsvHeader == <<Word("latitude"), Word("longitude")>>
CsvRows == {<<Num(c.lat), Num(c.lng)>> : c \in MapPoints}
CsvUploads == {<<CsvHeader>> \o rows : rows \in SeqsUpTo(CsvRows, MaxPoints)}
\* The files a user picks while plotting: the CSV files that hold a row.
PickedFiles == {File(FALSE, TRUE, lines) : lines \in CsvUploads \ {<<CsvHeader>>}}

\* handleFileUpload with its reader.onload (Sidebar.tsx 55-70) for one file:
\* the two checks on the file, then the parsed points are imported when
\* there is one at least, else only the upload error is set.  The text of a
\* file is a string, on which parseCSV does not throw.  onload reads no state,
\* so the turn between readAsText and onload is not kept apart.
FileUpload(file) ==
    IF file.tooLarge
    THEN /\ uploadError' = Some("File too large")
         /\ UNCHANGED areaVars
    ELSE IF ~file.csv
    THEN /\ uploadError' = Some("Only .csv supported")
         /\ UNCHANGED areaVars
    ELSE LET points == parseCSV(file.lines) IN
         IF Len(points) > 0
         THEN /\ importPlottedPoints(points)
              /\ UNCHANGED uploadError
         ELSE /\ uploadError' = Some("No coordinates found.")
              /\ UNCHANGED areaVars

\* The change event of the upload input (Sidebar.tsx 55-70).
handleFileUpload ==
    \E file \in PickedFiles :
        /\ FileUpload(file)
        /\ UNCHANGED <<status, report, chartData, deepAnalysisResult,
                       quickScanResult, nearbyPlaces, timers, pc, useDeepThinking,
                       agCall, cdCall, deepCall, sideCalls, quickGw, minesGw,
                       runs, scans, alerts>>
        /\ UNCHANGED closureVars
        /\ UNCHANGED xVars
        /\ UNCHANGED byVars

Next ==
    \/ handleSearch
    \/ handleQuickScan
    \/ FireTimer
    \/ AgSettle
    \/ CdSettle
    \/ DeepSettle
    \/ QuickSettle
    \/ MinesSettle

\* -------------------------------------------------------- specifications
Init ==
    /\ AppInit
    /\ xin = Failed
    /\ xout = Null
    /\ xoutR1 = Null

Spec == Init /\ [][Next]_vars

\* Every scheduled timer fires and every remote call settles; the user is
\* under no obligation to start anything.
FairSpec ==
    /\ Spec
    /\ WF_vars(FireTimer)
    /\ WF_vars(AgSettle)
    /\ WF_vars(CdSettle)
    /\ WF_vars(DeepSettle)
    /\ WF_vars(QuickSettle)
    /\ WF_vars(MinesSettle)

\* ------------------------------------------- extraction on its own inputs
\* analyzeGeology is a function of the request and the gateway's answer: the
\* answers are drawn from every text shape and every short chunk list.
SourceUris == {"a", "b"}
ChunkUris == {"b", "c", ""}
KeySets == {{}, ReportKeys \ {"sources"}, ReportKeys \ {"rawMarkdown"}, ReportKeys}
ReportDocs ==
    {ReportDoc(fenced, has, sources) :
        fenced \in BOOLEAN,
        has \in {k \in KeySets : "sources" \in k},
        sources \in SeqsUpTo(SourceUris, MaxSources)}
    \cup {ReportDoc(fenced, has, <<>>) :
        fenced \in BOOLEAN, has \in {k \in KeySets : "sources" \notin k}}
\* Texts that JSON.parse accepts and that spell no report: null, a number,
\* and report objects whose "sources" is a number or null.
NullDoc == Doc("null", FALSE, JsonNull)
NumberDoc == Doc("42", FALSE, JsonNumber)
OddSourcesDoc(sourcesType) ==
    Doc("{odd sources}", FALSE,
        [JsonObject(ReportKeys, <<>>, "# Report") EXCEPT !.sourcesType = sourcesType])
ShapelessDocs == {NullDoc, NumberDoc, OddSourcesDoc("number"), OddSourcesDoc("null")}
ExtractInputs ==
    {Failed} \cup
    {Response(doc, chunks) :
        doc \in {NoTextDoc, ProseDoc} \cup ReportDocs \cup ShapelessDocs,
        chunks \in SeqsUpTo(ChunkUris, MaxChunks)}

\* The request of a run started from the initial state.
ExtractRequest == Request(Exact(DEFAULT_COORDS), "Selected Point", Null, "")

ExtractInit ==
    /\ AppInit
    /\ xin \in ExtractInputs
    /\ xout = Null
    /\ xoutR1 = Null

Extract ==
    /\ xout = Null
    /\ xout' = Some(analyzeGeology(ExtractRequest, xin))
    /\ UNCHANGED <<xin, xoutR1>>
    /\ UNCHANGED appVars

ExtractR1 ==
    /\ xoutR1 = Null
    /\ xoutR1' = Some(analyzeGeology_r1(ExtractRequest, xin))
    /\ UNCHANGED <<xin, xout>>
    /\ UNCHANGED appVars

ExtractNext ==
    \/ Extract
    \/ ExtractR1

ExtractSpec == ExtractInit /\ [][ExtractNext]_vars

\* ------------------------------------- the boundary and the start of a run
\* The user plots, enforces, wipes and imports a boundary, selects points and
\* starts a run; the steps go up to the synchronous part of handleAnalysis,
\* where the target and the polygon of the run are resolved.
AreaNext ==
    \/ MapClick
    \/ togglePlottingMode
    \/ toggleUsePlottedArea
    \/ clearPlottedPoints
    \/ handleFileUpload
    \/ handleSearch

AreaSpec == Init /\ [][AreaNext]_vars

\* -------------------------------------------- the centroid on its own inputs
\* getTargetCoords is a function of usePlottedArea, plottedPoints and
\* coordinates: the boundaries are all short lists over a grid that holds the
\* extreme latitudes and longitudes.
GridPoints == {[lat |-> lat, lng |-> lng] :
                  lat \in {0 - 9000, 0, 4550}, lng \in {0 - 18000, 2708}}

CentroidInit ==
    /\ RunInit
    /\ coordinates = DEFAULT_COORDS
    /\ isPlottingMode = FALSE
    /\ plottedPoints \in SeqsUpTo(GridPoints, MaxPoints)
    /\ usePlottedArea \in BOOLEAN
    /\ uploadError = Null
    /\ xin = Failed
    /\ xout = Null
    /\ xoutR1 = Null

\* let targetCoords = getTargetCoords() (App.tsx 89).
ResolveTarget ==
    /\ xout = Null
    /\ xout' = Some(getTargetCoords)
    /\ UNCHANGED <<xin, xoutR1>>
    /\ UNCHANGED appVars

CentroidNext ==
    \/ ResolveTarget

CentroidSpec == CentroidInit /\ [][CentroidNext]_vars

\* ----------------------------------------------- parseCSV on its own inputs
\* The first lines: headers in either order, with a leading column, with the
\* northing/easting names, and a first line that is data.
CsvFirstLines ==
    {<<Word("latitude"), Word("longitude")>>,
     <<Word("longitude"), Word("latitude")>>,
     <<Word("name"), Word("latitude"), Word("longitude")>>,
     <<Word("city"), Word("latitude"), Word("longitude")>>,
     <<Word("northing"), Word("easting")>>,
     <<Num(1050), Num(2050)>>}

\* The data cells: 10.5, 20.5, 91.0, -181.0 and a word; the rows are every pair of
\* them and a row cut short after its first cell.
CsvCells == {Num(1050), Num(2050), Num(9100), Num(0 - 18100), Word("n/a")}
CsvPairs == {<<a, b>> : a \in CsvCells, b \in CsvCells} \cup {<<Num(1050)>>}

\* A row under a first line: a label in front when the first line has three
\* columns.
RowUnder(first, pair) ==
    IF Len(first) = 3 THEN <<Word("Pretoria")>> \o pair ELSE pair

CsvInputs ==
    {<<first>> \o [i \in 1..Len(pairs) |-> RowUnder(first, pairs[i])] :
        first \in CsvFirstLines, pairs \in SeqsUpTo(CsvPairs, MaxRows)}

ParseInit ==
    /\ AppInit
    /\ xin \in CsvInputs
    /\ xout = Null
    /\ xoutR1 = Null

Parse ==
    /\ xout = Null
    /\ xout' = Some(parseCSV(xin))
    /\ UNCHANGED <<xin, xoutR1>>
    /\ UNCHANGED appVars

ParseR1 ==
    /\ xoutR1 = Null
    /\ xoutR1' = Some(parseCSV_r1(xin))
    /\ UNCHANGED <<xin, xout>>
    /\ UNCHANGED appVars

ParseNext ==
    \/ Parse
    \/ ParseR1

ParseSpec == ParseInit /\ [][ParseNext]_vars

\* ------------------------------------------------ edits while a run goes on
\* The plotted boundaries of MaxPoints points, no two consecutive ones equal.
EditBoundaries ==
    {pts \in SeqsUpTo(MapPoints, MaxPoints) :
        Len(pts) = MaxPoints /\ \A i \in 2..Len(pts) : pts[i] # pts[i - 1]}

\* The boundary at the start: none, or a plotted boundary, enforced; the user
\* is out of plotting mode.
EditInit ==
    /\ RunInit
    /\ coordinates = DEFAULT_COORDS
    /\ isPlottingMode = FALSE
    /\ plottedPoints \in {<<>>} \cup EditBoundaries
    /\ usePlottedArea = (Len(plottedPoints) >= 3)
    /\ uploadError = Null
    /\ xin = Failed
    /\ xout = Null
    /\ xoutR1 = Null

\* The user starts runs and, at any time, selects another point, wipes the
\* boundary or switches its enforcement; the timers fire and the calls of
\* the state machine settle.
EditNext ==
    \/ handleSearch
    \/ MapClick
    \/ clearPlottedPoints
    \/ toggleUsePlottedArea
    \/ FireTimer
    \/ AgSettle
    \/ CdSettle
    \/ DeepSettle

EditSpec == EditInit /\ [][EditNext]_vars

\* ------------------------------------------- one upload on its own inputs
\* The files: those a user picks, a CSV file over the size limit, a file of
\* another extension, and CSV files of no line, of a header alone and with a
\* row that holds no number.
ImportFiles ==
    PickedFiles
    \cup {File(TRUE, TRUE, <<CsvHeader, <<Num(1050), Num(2050)>>>>),
          File(FALSE, FALSE, <<CsvHeader, <<Num(1050), Num(2050)>>>>),
          File(FALSE, TRUE, <<>>),
          File(FALSE, TRUE, <<CsvHeader>>),
          File(FALSE, TRUE, <<CsvHeader, <<Word("n/a"), Num(2050)>>>>),
          File(FALSE, TRUE, <<CsvHeader, <<Word("n/a"), Num(2050)>>, <<Num(1050), Num(2050)>>>>)}

\* The boundary an upload can find: any short list of plotted points, enforced
\* or not when it holds a point, in or out of plotting mode, with any selected
\* point.
ImportInit ==
    /\ RunInit
    /\ coordinates \in {DEFAULT_COORDS} \cup MapPoints
    /\ isPlottingMode \in BOOLEAN
    /\ plottedPoints \in SeqsUpTo(MapPoints, MaxPoints)
    /\ usePlottedArea \in {u \in BOOLEAN : u => Len(plottedPoints) > 0}
    /\ uploadError = Null
    /\ xin \in ImportFiles
    /\ xout = Null
    /\ xoutR1 = Null

\* The upload of the file xin; xout keeps the points plotted before it.
Upload ==
    /\ xout = Null
    /\ FileUpload(xin)
    /\ xout' = Some(plottedPoints)
    /\ UNCHANGED <<xin, xoutR1>>
    /\ UNCHANGED <<status, report, chartData, deepAnalysisResult,
                   quickScanResult, nearbyPlaces, timers, pc, useDeepThinking,
                   agCall, cdCall, deepCall, sideCalls, quickGw, minesGw,
                   runs, scans, alerts>>
    /\ UNCHANGED closureVars
    /\ UNCHANGED byVars

ImportNext ==
    \/ Upload

ImportSpec == ImportInit /\ [][ImportNext]_vars

\* ================================================================ claims

\* C1: during one run the status only moves forward through UPLOADING,
\* FETCHING_SATELLITE, PROCESSING_GEOPHYSICS, SCRAPING_DATA, ANALYZING_AI and
\* then COMPLETE or ERROR: a step that does not start a new run either
\* leaves the status or moves it to a later stage.
C1_StatusOnlyMovesForward ==
    [][runs' = runs =>
          (status' = status \/ StageRank(status') > StageRank(status))]_vars

\* A run has gone through every stage and ended.
C1_RunWentThroughAllStages ==
    runs >= 1 /\ status = "COMPLETE" /\ timers = {}

\* C2: every run that was started reaches COMPLETE or ERROR (timers fire,
\* calls settle), and never passes from one of the two to the other.
C2_RunEndsInExactlyOne ==
    /\ (isLoading ~> (status \in Terminal))
    /\ [][~(status = "COMPLETE" /\ status' = "ERROR")
          /\ ~(status = "ERROR" /\ status' = "COMPLETE")]_vars

\* A run has ended, its callback is through.
C2_RunEnded ==
    runs >= 1 /\ pc = "done" /\ status \in Terminal

\* C3: when the gateway fails the full-report call, the status is ERROR from
\* that moment to the end of the run, whether the chart-data call settled
\* before, settles after, or failed too.
C3_ReportFailureEndsInError ==
    (agCall.st = "settled" /\ ~agCall.gwOk) => (status = "ERROR" /\ pc = "done")

\* The full-report call failed at the gateway and the chart-data call gave
\* its points.
C3_ReportFailedChartResolved ==
    /\ agCall.st = "settled" /\ ~agCall.gwOk
    /\ cdCall.st = "settled" /\ cdCall.gwOk

C5_NewRunDiscardsPreviousResults ==
    status = "UPLOADING" =>
        (report = Null /\ chartData = <<>> /\ deepAnalysisResult = Null)

\* C6 as stated: after a run ended in ERROR because the full-report call
\* rejected while the chart-data call resolved, chartData holds no point,
\* neither of this run's chart call nor of an earlier run.
C6_ErrorLeavesNoChartData ==
    (status = "ERROR" /\ IsRejected(agCall) /\ IsResolved(cdCall)) =>
        chartData = <<>>

\* C7: the status is COMPLETE only when the full-report and chart-data calls
\* of the run have both resolved and report and chartData hold their results,
\* and, when deep reasoning was requested, the deep-reasoning call has settled.
C7_CompleteOnlyAfterResults ==
    status = "COMPLETE" =>
        /\ IsResolved(agCall)
        /\ IsResolved(cdCall)
        /\ report # Null
        /\ \A key \in DOMAIN agCall.result.value :
               report.val[key] = agCall.result.value[key]
        /\ chartData = cdCall.result.value
        /\ (useDeepThinking => deepCall.st = "settled")
        /\ (~useDeepThinking => deepCall.st = "none")

\* A run with deep reasoning has ended in COMPLETE.
C7_CompleteWithDeepReasoning ==
    status = "COMPLETE" /\ useDeepThinking /\ chartData # <<>>

\* C8: a failed side call leaves the neutral value in its own field (the
\* empty string, the empty list); the status is ERROR only when the
\* full-report call rejected, and a run whose two required calls resolved
\* ends in COMPLETE whatever the side calls did.
C8_SideFailuresAreNeutral ==
    /\ (quickGw = "failed" => quickScanResult = "")
    /\ (minesGw = "failed" => nearbyPlaces = <<>>)
    /\ (status = "ERROR" => IsRejected(agCall))
    /\ ((pc = "done" /\ IsResolved(agCall) /\ IsResolved(cdCall)) =>
            status = "COMPLETE")

\* Both side calls failed and the run ended in COMPLETE.
C8_SideCallsFailedRunComplete ==
    quickGw = "failed" /\ minesGw = "failed" /\ status = "COMPLETE"

\* C9 as stated: when the deep-reasoning call fails, the run ends in COMPLETE
\* and deepAnalysisResult is left null.
C9_DeepFailureLeavesNull ==
    (deepCall.st = "settled" /\ ~deepCall.gwOk) =>
        (status = "COMPLETE" /\ deepAnalysisResult = Null)

\* C9 amended: when the deep-reasoning call fails, the run ends in COMPLETE
\* and deepAnalysisResult holds the notice "Deep thinking analysis
\* unavailable.".
C9_DeepFailureLeavesNotice ==
    (deepCall.st = "settled" /\ ~deepCall.gwOk) =>
        /\ status = "COMPLETE"
        /\ pc = "done"
        /\ deepAnalysisResult = Some("Deep thinking analysis unavailable.")

\* The deep-reasoning call of a run failed at the gateway.
C9_DeepFailed ==
    useDeepThinking /\ deepCall.st = "settled" /\ ~deepCall.gwOk

\* u lists every element of s once, in the order of first occurrence in s.
IsFirstSeenUnion(u, s) ==
    /\ \A i, j \in 1..Len(u) : u[i] = u[j] => i = j
    /\ {u[i] : i \in 1..Len(u)} = {s[i] : i \in 1..Len(s)}
    /\ \A i, j \in 1..Len(u) :
          i < j => \E k \in 1..Len(s) :
                      /\ s[k] = u[i]
                      /\ \A l \in 1..Len(s) : s[l] = u[j] => k < l

\* The sources the report itself carries: those of the JSON object when the
\* text parses (fences removed or not, by revision) and has the key, else none.
OwnSources(gw, stripsFences) ==
    IF /\ gw.doc.text # ""
       /\ gw.doc.content.type = "object"
       /\ (stripsFences \/ ~gw.doc.fenced)
       /\ "sources" \in gw.doc.content.has
       /\ gw.doc.content.sourcesType = "array"
    THEN gw.doc.content.sources
    ELSE <<>>

\* The gateway's grounding provenance: the uris of the chunks that have one.
Provenance(gw) ==
    LET F[i \in 0..Len(gw.chunks)] ==
            IF i = 0 THEN <<>>
            ELSE IF gw.chunks[i] = "" THEN F[i-1]
                 ELSE Append(F[i-1], gw.chunks[i])
    IN F[Len(gw.chunks)]

\* The claim of C10 for one returned report.
SourcesAreMerged(out, gw, stripsFences) ==
    (out # Null /\ ~out.val.threw) =>
        IsFirstSeenUnion(out.val.value.sources,
                         OwnSources(gw, stripsFences) \o Provenance(gw))

\* C10 as stated: the sources of every report analyzeGeology returns, in
\* either revision of the service, are the duplicate-free first-seen-order
\* union of the report's own sources followed by the grounding provenance.
C10_SourcesAreFirstSeenUnion ==
    /\ SourcesAreMerged(xout, xin, TRUE)
    /\ SourcesAreMerged(xoutR1, xin, FALSE)

\* C10 for the revision the App calls (geminiService.ts 298-299) alone.
C10_SourcesAreFirstSeenUnionCurrent ==
    SourcesAreMerged(xout, xin, TRUE)

\* The reports the two revisions of analyzeGeology returned for xin.
Returned == {out.val.value : out \in {o \in {xout, xoutR1} : o # Null /\ ~o.val.threw}}

\* C11 as stated: every report analyzeGeology returns carries a rawMarkdown
\* that is a non-empty string, whatever the response text was: empty, a JSON
\* object without rawMarkdown, or unparseable.
C11_RawMarkdownNonEmpty ==
    \A r \in Returned : "rawMarkdown" \in r.has /\ r.rawMarkdown # ""

\* The response text does not spell a report: it is empty, JSON.parse (after
\* the revision's fence handling) rejects it, or the JSON value is not an
\* object carrying every key of the report with a list of sources.
NotAReport(gw, stripsFences) ==
    \/ gw.doc.text = ""
    \/ gw.doc.fenced /\ ~stripsFences
    \/ gw.doc.content.type # "object"
    \/ gw.doc.content.type = "object" /\ gw.doc.content.has # ReportKeys
    \/ gw.doc.content.type = "object" /\ gw.doc.content.sourcesType # "array"

\* The fallback report of the claim of C12 for request req and answer gw.
IsFallbackOf(r, req, gw) ==
    /\ "rawMarkdown" \in r.has /\ r.rawMarkdown = gw.doc.text
    /\ "geologicalSummary" \in r.has /\ r.geologicalSummary = gw.doc.text
    /\ r.mineralPotential = <<>>
    /\ r.nearbyProjects = <<>>
    /\ IsFirstSeenUnion(r.sources, Provenance(gw))
    /\ \E i \in 1..Len(r.title) : r.title[i] = req.locationName
    /\ r.location = <<ToString(req.coords.lat), ", ", ToString(req.coords.lng)>>

\* C12 as stated: for every response text that does not parse into a report,
\* analyzeGeology, in either revision, returns the fallback report: the text
\* verbatim in rawMarkdown and geologicalSummary, no mineralPotential and no
\* nearbyProjects, the merged provenance as sources, title and location built
\* from the request.
C12_UnparsedTextGivesFallback ==
    /\ (xout # Null /\ xin.ok /\ NotAReport(xin, TRUE)) =>
          (~xout.val.threw /\ IsFallbackOf(xout.val.value, ExtractRequest, xin))
    /\ (xoutR1 # Null /\ xin.ok /\ NotAReport(xin, FALSE)) =>
          (~xoutR1.val.threw /\ IsFallbackOf(xoutR1.val.value, ExtractRequest, xin))

\* C13 as stated: when the gateway call succeeds, analyzeGeology returns a
\* report for every response text; it never rejects.
C13_ExtractionNeverThrows ==
    xin.ok => \A out \in {xout, xoutR1} : out # Null => ~out.val.threw

\* C14: once a run has set COMPLETE or ERROR the status stays as it is until
\* the user starts a new run, and the step that starts a run sets UPLOADING.
C14_TerminalUntilNewRun ==
    [][/\ (status \in Terminal /\ runs' = runs) => status' = status
       /\ runs' # runs => status' = "UPLOADING"]_vars

\* A second run was started after the first one had delivered its chart data.
C14_SecondRunStarted ==
    runs = 2 /\ status = "UPLOADING" /\ chartData # <<>>

\* The step issues the call: the promise is in flight after it and was not
\* before.
Issued(call, callAfter) == callAfter.st = "pending" /\ call.st # "pending"

\* C15: no remote call is retried.  In the steps of one run each of the
\* full-report, chart-data and deep-reasoning calls is issued only when it
\* had not been issued, a call is marked not issued only by the start of a
\* run, and no side call is added; the start of a run issues one quick scan
\* and one nearby-site lookup, a manual quick scan one quick scan; and after
\* ERROR no call is issued until the user starts a run or a quick scan.
C15_NoAutomaticRetry ==
    [][/\ (runs' = runs) =>
            /\ Issued(agCall, agCall') => agCall.st = "none"
            /\ Issued(cdCall, cdCall') => cdCall.st = "none"
            /\ Issued(deepCall, deepCall') => deepCall.st = "none"
            /\ agCall'.st = "none" => agCall.st = "none"
            /\ cdCall'.st = "none" => cdCall.st = "none"
            /\ deepCall'.st = "none" => deepCall.st = "none"
       /\ (runs' = runs /\ scans' = scans) => sideCalls' \subseteq sideCalls
       /\ (runs' # runs) =>
            /\ Cardinality(sideCalls' \ sideCalls) = 2
            /\ {c.kind : c \in sideCalls' \ sideCalls} = {"quick", "mines"}
       /\ (scans' # scans) =>
            /\ Cardinality(sideCalls' \ sideCalls) = 1
            /\ {c.kind : c \in sideCalls' \ sideCalls} = {"quick"}
       /\ (status = "ERROR" /\ runs' = runs /\ scans' = scans) =>
            /\ ~Issued(agCall, agCall')
            /\ ~Issued(cdCall, cdCall')
            /\ ~Issued(deepCall, deepCall')
            /\ sideCalls' \subseteq sideCalls]_vars

\* A run ended in ERROR and every call it issued has settled.
C15_ErrorRunAllSettled ==
    status = "ERROR" /\ cdCall.st = "settled" /\ sideCalls = {} /\ timers = {}

\* t is the arithmetic mean of the points: each coordinate of t, times the
\* number of points, is the sum of that coordinate over the points.
IsMeanOf(t, points) ==
    /\ t.lat * Len(points) = SumLat(points) * t.per
    /\ t.lng * Len(points) = SumLng(points) * t.per

\* t is the point c itself.
IsPoint(t, c) == t.lat = c.lat * t.per /\ t.lng = c.lng * t.per

\* C16: the step that starts a run resolves the target to the mean of
\* plottedPoints, and the polygon passed to analyzeGeology to the whole list
\* of plottedPoints, exactly when usePlottedArea is true and three points or
\* more are plotted at that moment; otherwise the target is the selected
\* coordinates and no polygon is passed.
C16_TargetResolvedAtStart ==
    [][runs' # runs =>
          IF usePlottedArea /\ Len(plottedPoints) >= 3
          THEN /\ IsMeanOf(targetCoords', plottedPoints)
               /\ polygon' = Some(plottedPoints)
               /\ RunRequest'.areaPolygon = Some(plottedPoints)
               /\ RunRequest'.coords = targetCoords'
          ELSE /\ IsPoint(targetCoords', coordinates)
               /\ polygon' = Null
               /\ RunRequest'.areaPolygon = Null
               /\ RunRequest'.coords = targetCoords']_vars

\* A run was started on an enforced boundary of three points that are not
\* all the same, after the selected point had been moved.
C16_RunOnEnforcedBoundary ==
    /\ runs = 1 /\ polygon # Null /\ targetCoords.per = 3
    /\ coordinates # DEFAULT_COORDS
    /\ \E i, j \in 1..Len(plottedPoints) : plottedPoints[i] # plottedPoints[j]

\* C17 as stated: usePlottedArea is true only while plottedPoints holds three
\* points or more, after any clicks, toggles, wipes and CSV imports.
C17_EnforcedOnlyWithThreePoints ==
    usePlottedArea => Len(plottedPoints) >= 3

\* The coordinate c lies within the bounding box of the points: each of its
\* latitude and longitude is between the least and the greatest of theirs.
InBoundingBox(c, points) ==
    /\ \E i \in 1..Len(points) : points[i].lat * c.per <= c.lat
    /\ \E i \in 1..Len(points) : points[i].lat * c.per >= c.lat
    /\ \E i \in 1..Len(points) : points[i].lng * c.per <= c.lng
    /\ \E i \in 1..Len(points) : points[i].lng * c.per >= c.lng

Names(cell) ==
    IF cell.kind # "word" THEN "other"
    ELSE CASE cell.word \in {"latitude", "northing"} -> "lat"
           [] cell.word \in {"longitude", "easting"} -> "lng"
           [] OTHER -> "other"

\* A well-formed header: words, one of which names the latitude and one the
\* longitude.
WellFormedHeader(first) ==
    /\ \A i \in 1..Len(first) : first[i].kind = "word"
    /\ Cardinality({i \in 1..Len(first) : Names(first[i]) = "lat"}) = 1
    /\ Cardinality({i \in 1..Len(first) : Names(first[i]) = "lng"}) = 1
NamedColumn(first, name) == CHOOSE i \in 1..Len(first) : Names(first[i]) = name

\* The cell of a row in a column is the decimal text of a number.
IsNumberAt(row, col) == col \in 1..Len(row) /\ row[col].kind = "number"

\* A data row holds a coordinate in the columns the header names: both cells
\* are numbers and, when the ranges are checked, within them.
HoldsCoordinate(row, first, ranged) ==
    LET latCol == NamedColumn(first, "lat")
        lngCol == NamedColumn(first, "lng")
    IN /\ IsNumberAt(row, latCol)
       /\ IsNumberAt(row, lngCol)
       /\ ranged => /\ row[latCol].val >= 0 - 9000 /\ row[latCol].val <= 9000
                    /\ row[lngCol].val >= 0 - 18000 /\ row[lngCol].val <= 18000

\* The coordinates of the named columns of the data rows that hold one, in
\* file order.
NamedCoordinates(lines, ranged) ==
    LET first == lines[1]
        rows == SubSeq(lines, 2, Len(lines))
        kept == SelectSeq(rows, LAMBDA row : HoldsCoordinate(row, first, ranged))
    IN [i \in 1..Len(kept) |->
            [lat |-> kept[i][NamedColumn(first, "lat")].val,
             lng |-> kept[i][NamedColumn(first, "lng")].val]]

\* C19 as stated: for every CSV input with a well-formed header, parseCSV, in
\* either revision, returns the coordinates read from the columns the header
\* names, of the rows the revision accepts, whatever the order of the columns
\* and whatever other columns there are.
C19_ReadsHeaderNamedColumns ==
    WellFormedHeader(xin[1]) =>
        /\ xout # Null => xout.val = NamedCoordinates(xin, FALSE)
        /\ xoutR1 # Null => xoutR1.val = NamedCoordinates(xin, TRUE)

\* A header that names its columns latitude and longitude and whose other
\* columns hold none of the substrings parseCSV looks for.
PlainHeader(first) ==
    /\ WellFormedHeader(first)
    /\ \A i \in 1..Len(first) :
          \/ first[i].word \in {"latitude", "longitude"}
          \/ KeywordsIn(first[i].word) = {}

\* C20 as stated: under such a header parseCSV, in either revision, returns
\* the coordinates of exactly the data rows whose two designated cells are
\* numbers with the latitude in [-90, 90] and the longitude in [-180, 180],
\* in file order, and skips every other row.
C20_AcceptsExactlyValidRows ==
    PlainHeader(xin[1]) =>
        /\ xout # Null => xout.val = NamedCoordinates(xin, TRUE)
        /\ xoutR1 # Null => xoutR1.val = NamedCoordinates(xin, TRUE)

\* C20 for the revision of src/unnamed/part_004 alone.
C20_AcceptsExactlyValidRowsR1 ==
    PlainHeader(xin[1]) =>
        (xoutR1 # Null => xoutR1.val = NamedCoordinates(xin, TRUE))

\* C19 for the revision of src/unnamed/part_004 under the headers whose
\* other columns hold none of the substrings.
C19_ReadsHeaderNamedColumnsR1 ==
    (WellFormedHeader(xin[1]) /\ \A i \in 1..Len(xin[1]) :
          Names(xin[1][i]) = "other" => KeywordsIn(xin[1][i].word) = {}) =>
        (xoutR1 # Null => xoutR1.val = NamedCoordinates(xin, TRUE))

\* C21: a CSV import is all or nothing: an upload step either leaves
\* plottedPoints exactly the list parsed from the file, or it is a rejection
\* (file over the size limit, other extension, no line, no valid row) that
\* sets the upload error and leaves plottedPoints, usePlottedArea,
\* isPlottingMode and coordinates as they were.
ImportAccepted(file) ==
    ~file.tooLarge /\ file.csv /\ Len(parseCSV(file.lines)) > 0
ImportRejections ==
    {Some("File too large"), Some("Only .csv supported"), Some("No coordinates found.")}
C21_ImportAllOrNothing ==
    [][xout' # xout =>
         IF ImportAccepted(xin)
         THEN plottedPoints' = parseCSV(xin.lines)
         ELSE /\ UNCHANGED <<plottedPoints, usePlottedArea, isPlottingMode,
                             coordinates>>
              /\ uploadError' \in ImportRejections]_vars
\* An accepted file of one row has replaced a longer enforced boundary.
C21_ImportReplacedBoundary ==
    /\ xout # Null
    /\ ImportAccepted(xin)
    /\ Len(xout.val) = MaxPoints
    /\ Len(plottedPoints) = 1
    /\ plottedPoints[1] # xout.val[1]
    /\ usePlottedArea

\* C22: a new run or quick scan cancels no call in flight, and every side call
\* that settles, whichever invocation made it, commits its result to its
\* field; so the call of an earlier run can settle after the call of the newer
\* run and leave the earlier result in quickScanResult or nearbyPlaces.
QuickResults == {quickGeologyScan(gw).value : gw \in QuickAnswers}
MinesResults == {findNearbyMines(gw).value : gw \in MinesAnswers}
C22_LateCallsStillCommit ==
    [][/\ (runs' # runs \/ scans' # scans) => sideCalls \subseteq sideCalls'
       /\ \A c \in sideCalls \ sideCalls' :
            IF c.kind = "quick"
            THEN quickBy' = c /\ quickScanResult' \in QuickResults
            ELSE minesBy' = c /\ nearbyPlaces' \in MinesResults]_vars
\* The second run's quick scan has settled, and after it the first run's: the
\* field shows the result of the first run's call.
C22_EarlierResultShown ==
    /\ runs = 2
    /\ quickBy.origin = "run"
    /\ quickBy.n = 1
    /\ \A c \in sideCalls : ~(c.kind = "quick" /\ c.origin = "run" /\ c.n = 2)

\* C23: the step that takes a run to ERROR leaves quickScanResult and
\* nearbyPlaces, and the side calls in flight, as they were; and a side call
\* that settles while the status is ERROR commits its result and leaves the
\* status ERROR.
C23_ErrorLeavesSideCalls ==
    [][/\ (status' = "ERROR" /\ status # "ERROR") =>
              UNCHANGED <<quickScanResult, nearbyPlaces, quickBy, minesBy, sideCalls>>
       /\ (status = "ERROR" /\ runs' = runs /\ scans' = scans) =>
              /\ status' = "ERROR"
              /\ \A c \in sideCalls \ sideCalls' :
                    IF c.kind = "quick"
                    THEN quickBy' = c /\ quickScanResult' \in QuickResults
                    ELSE minesBy' = c /\ nearbyPlaces' \in MinesResults]_vars
\* The run is in ERROR, its nearby-site lookup has committed and its quick
\* scan is in flight still.
C23_CommittedAfterError ==
    /\ status = "ERROR"
    /\ minesBy = SideCall("mines", "run", runs, targetCoords)
    /\ SideCall("quick", "run", runs, targetCoords) \in sideCalls
    /\ quickBy = NoOne
    /\ runs = 1

\* C24: every step that takes a run to ERROR shows an alert in the same step.
C24_ErrorRaisesAlert ==
    [][(status' = "ERROR" /\ status # "ERROR") => alerts' = alerts + 1]_vars

\* C25: the report and the chart data a run commits are those of its two
\* resolved calls, whichever settled first: a report is held only with both
\* calls resolved and is the full-report result with the snapshot, center and
\* boundary attached, chartData is then the chart-data result, and chartData
\* is written only in the step that commits the report.
C25_CommitAfterBothResolved ==
    [][/\ report' # Null =>
            /\ IsResolved(agCall') /\ IsResolved(cdCall')
            /\ report'.val = agCall'.result.value
                               @@ [mapSnapshot |-> "tile", center |-> targetCoords',
                                   boundary |-> polygon']
            /\ chartData' = cdCall'.result.value
       /\ chartData' # chartData => (report = Null /\ report' # Null)]_vars
\* The chart data resolved first and differs from the chartData shown; the
\* full-report call is in flight and nothing is committed.
C25_ChartResolvedFirst ==
    /\ IsResolved(cdCall)
    /\ agCall.st = "pending"
    /\ report = Null
    /\ cdCall.result.value # chartData

\* C26: when the status reaches ANALYZING_AI and deep reasoning was requested,
\* the deep-reasoning call is issued in that step, with the full-report and
\* chart-data calls.
C26_DeepIssuedWithRequiredCalls ==
    [][(status' = "ANALYZING_AI" /\ status # "ANALYZING_AI" /\ useDeepThinking')
          => deepCall'.st = "pending"]_vars
\* C26 (amended): the deep-reasoning call is issued only when deep reasoning
\* was requested, in the step that commits the report with the full-report
\* and chart-data calls both resolved; while either of them is in flight no
\* deep-reasoning call is.
C26_DeepIssuedAfterBothResolved ==
    [][/\ (deepCall'.st = "pending" /\ deepCall.st # "pending") =>
            /\ useDeepThinking
            /\ IsResolved(agCall') /\ IsResolved(cdCall')
            /\ report = Null /\ report' # Null
            /\ status' = "ANALYZING_AI"
       /\ (agCall'.st = "pending" \/ cdCall'.st = "pending") =>
            deepCall'.st # "pending"]_vars
\* The deep-reasoning call is in flight after both required calls resolved.
C26_DeepInFlight ==
    /\ deepCall.st = "pending"
    /\ useDeepThinking
    /\ IsResolved(agCall)
    /\ IsResolved(cdCall)
    /\ status = "ANALYZING_AI"

\* C27: the step that starts a run issues its two side calls with all four
\* stage timers still pending; a pending stage timer can fire whatever side
\* calls are in flight; and the step that commits a side-call result, in any
\* status, writes its own field and leaves status, report, chartData and
\* deepAnalysisResult (and the timers and required calls) as they were.
C27_SideCallsDecoupled ==
    [][/\ runs' # runs =>
            /\ SideCall("quick", "run", runs', targetCoords') \in sideCalls'
            /\ SideCall("mines", "run", runs', targetCoords') \in sideCalls'
            /\ StageTimers \subseteq timers'
       /\ timers # {} => ENABLED FireTimer
       /\ \A c \in sideCalls \ sideCalls' :
            /\ UNCHANGED <<status, report, chartData, deepAnalysisResult,
                           timers, pc, agCall, cdCall, deepCall>>
            /\ IF c.kind = "quick"
               THEN quickBy' = c /\ UNCHANGED <<nearbyPlaces, minesBy>>
               ELSE minesBy' = c /\ UNCHANGED <<quickScanResult, quickBy>>]_vars
\* The run is COMPLETE, its nearby-site lookup has committed and its quick
\* scan is in flight still.
C27_SideCallPendingAtComplete ==
    /\ status = "COMPLETE"
    /\ runs = 1
    /\ scans = 0
    /\ minesBy = SideCall("mines", "run", 1, targetCoords)
    /\ sideCalls = {SideCall("quick", "run", 1, targetCoords)}

\* C28: the target and the polygon of a run are resolved in the step that
\* starts it and change in no other step, whatever is done to coordinates,
\* plottedPoints or usePlottedArea meanwhile; the side calls carry that
\* target, the full-report call settles with the result for that target,
\* polygon and location name, and the report committed holds that target as
\* center and that polygon as boundary.
C28_RunUsesTargetAtStart ==
    [][/\ runs' # runs =>
            /\ targetCoords' = getTargetCoords
            /\ polygon' = IF usePlottedArea /\ Len(plottedPoints) >= 3
                          THEN Some(plottedPoints) ELSE Null
            /\ \A c \in sideCalls' \ sideCalls : c.coords = targetCoords'
       /\ runs' = runs => UNCHANGED <<targetCoords, polygon, locationName>>
       /\ (agCall.st = "pending" /\ agCall'.st = "settled") =>
            \E gw \in AgAnswers :
               agCall'.result =
                  analyzeGeology(Request(targetCoords, locationName, polygon, ""), gw)
       /\ report' # Null =>
            /\ report'.val.center = targetCoords'
            /\ report'.val.boundary = polygon']_vars
\* A report is committed for the boundary of the start, after the boundary
\* was wiped and another point selected.
C28_ReportAfterEdits ==
    /\ report # Null
    /\ runs = 1
    /\ report.val.boundary # Null
    /\ report.val.center = Centroid(report.val.boundary.val)
    /\ plottedPoints = <<>>
    /\ coordinates # DEFAULT_COORDS
    /\ getTargetCoords # report.val.center

\* C29: a run starts only while the status is IDLE, COMPLETE or ERROR, and
\* then nothing of an earlier run that writes status, report, chartData or
\* deepAnalysisResult is left: no stage timer is pending, the callback of the
\* last timer has finished, and no full-report or deep-reasoning call is in
\* flight; the timers pending after the start are the four of the new run.
C29_OneRunAtATime ==
    [][runs' # runs =>
          /\ status \in {"IDLE", "COMPLETE", "ERROR"}
          /\ timers = {}
          /\ pc \in {"none", "done"}
          /\ agCall.st # "pending"
          /\ deepCall.st # "pending"
          /\ timers' = StageTimers]_vars
\* A second run has started, its four timers pending, after a first run that
\* committed no chart data and while no quick scan has settled.
C29_SecondRunTimersPending ==
    /\ runs = 2
    /\ timers = StageTimers
    /\ status = "UPLOADING"
    /\ chartData = <<>>
    /\ quickBy = NoOne

\* C30: in every reachable state, status COMPLETE implies a report is held,
\* status ERROR implies none is, and a held report implies the status is
\* ANALYZING_AI or COMPLETE.
C30_StatusAndReport ==
    /\ status = "COMPLETE" => report # Null
    /\ status = "ERROR" => report = Null
    /\ report # Null => status \in {"ANALYZING_AI", "COMPLETE"}
\* The report is held while the status is ANALYZING_AI still: the
\* deep-reasoning call is awaited.
C30_ReportHeldWhileAnalyzing ==
    /\ report # Null
    /\ status = "ANALYZING_AI"
    /\ deepAnalysisResult = Null
    /\ runs = 2

====
